---- MODULE Spec2Model ----
(***************************************************************************)
(* A model of project.py: the recursive tree walk (_list_recursive), the   *)
(* template listing (list), the sentinel substitution (_patch_project_name, *)
(* _init_project) and the clone command (clone).                            *)
(*                                                                         *)
(* Texts (file contents, file names, command-line strings) are sequences   *)
(* of one-character strings.  A filesystem entry is a record               *)
(*   [name, dir, kids, text]                                               *)
(* where kids is the sequence of the directory's children in the order     *)
(* iterdir() yields them (any order is possible) and text is a regular     *)
(* file's content.  A path is a sequence of names.                         *)
(***************************************************************************)
EXTENDS Integers, Sequences, FiniteSets, TLC

VARIABLES
    pc,            \* position of the running command
    cwd,           \* _CURRENT_DIR, the absolute path the process started in
    root,          \* the directory the command reads (walk root, Template Root, template)
    maxdepth,      \* the maxdepth argument of the walk
    result,        \* the list _list_recursive returned
    out,           \* the lines `list` logged, in order
    destination,   \* clone's destination argument (a name)
    project_name,  \* clone's project_name argument, or None
    dest,          \* the destination tree on disk, or Absent
    stages,        \* the stages a clone has entered, in order
    exitcode,      \* the exit codes the process has ended with (at most one)
    visited,       \* the paths _init_project has patched, in order
    first          \* the destination tree as the first _init_project run left it

vars == <<pc, cwd, root, maxdepth, result, out, destination, project_name,
          dest, stages, exitcode, visited, first>>

\* An absent argument, and an absent filesystem entry.
None == <<"None">>
Absent == [exists |-> FALSE]

----------------------------------------------------------------------------
(* Bounds *)

\* entries below the root of a walked tree
MaxEntries == 4

\* pieces a file's content is made of
MaxPieces == 3

\* entries of a template or destination tree
MaxTemplateEntries == 2

\* entries below a Template Root
MaxListEntries == 4

----------------------------------------------------------------------------
(* Texts *)

PROJECT_NAME_SENTINEL ==
    <<"{", "%", "P", "R", "O", "J", "E", "C", "T", "_", "N", "A", "M", "E", "%", "}">>

Last(s) == s[Len(s)]

\* name.startswith(".")
IsHidden(name) == Len(name) > 0 /\ name[1] = "."

RECURSIVE SeqToSet(_)
SeqToSet(s) == IF s = <<>> THEN {} ELSE {Head(s)} \cup SeqToSet(Tail(s))

\* str.replace(old, new), old non-empty: the leftmost occurrences, left to
\* right, none overlapping another; the replacement is not scanned again.
RECURSIVE Replace(_, _, _)
Replace(s, old, new) ==
    IF Len(s) < Len(old) THEN s
    ELSE IF SubSeq(s, 1, Len(old)) = old
         THEN new \o Replace(SubSeq(s, Len(old) + 1, Len(s)), old, new)
         ELSE <<Head(s)>> \o Replace(Tail(s), old, new)

\* str.count(sub), sub non-empty: the occurrences that do not overlap.
RECURSIVE Count(_, _)
Count(sub, s) ==
    IF Len(s) < Len(sub) THEN 0
    ELSE IF SubSeq(s, 1, Len(sub)) = sub
         THEN 1 + Count(sub, SubSeq(s, Len(sub) + 1, Len(s)))
         ELSE Count(sub, Tail(s))

IsSubstring(a, b) ==
    \E i \in 0..(Len(b) - Len(a)) : SubSeq(b, i + 1, i + Len(a)) = a

Chars(s) == {s[i] : i \in 1..Len(s)}

----------------------------------------------------------------------------
(* Filesystem entries *)

File(n, t) == [name |-> n, dir |-> FALSE, kids |-> <<>>, text |-> t]
Dir(n, ks) == [name |-> n, dir |-> TRUE, kids |-> ks, text |-> <<>>]

KidNames(ks) == {ks[i].name : i \in 1..Len(ks)}

\* The trees with exactly n entries, and the forests (sequences of sibling
\* trees with distinct names, in enumeration order) with exactly n entries:
\* a first tree of k entries followed by a forest of n - k.
RECURSIVE TreesExact(_, _, _, _), ForestsExact(_, _, _, _), ForestsFirst(_, _, _, _, _)
TreesExact(n, fnames, dnames, texts) ==
    IF n = 0 THEN {}
    ELSE (IF n = 1 THEN {File(nm, t) : nm \in fnames, t \in texts} ELSE {})
         \cup {Dir(nm, ks) : nm \in dnames, ks \in ForestsExact(n - 1, fnames, dnames, texts)}

ForestsFirst(k, n, fnames, dnames, texts) ==
    IF k > n THEN {}
    ELSE {<<p[1]>> \o p[2] :
             p \in {q \in TreesExact(k, fnames, dnames, texts)
                            \X ForestsExact(n - k, fnames, dnames, texts) :
                       q[1].name \notin KidNames(q[2])}}
         \cup ForestsFirst(k + 1, n, fnames, dnames, texts)

ForestsExact(n, fnames, dnames, texts) ==
    IF n = 0 THEN {<<>>} ELSE ForestsFirst(1, n, fnames, dnames, texts)

\* The forests with at most n entries.
RECURSIVE Forests(_, _, _, _)
Forests(n, fnames, dnames, texts) ==
    IF n = 0 THEN {<<>>}
    ELSE ForestsExact(n, fnames, dnames, texts) \cup Forests(n - 1, fnames, dnames, texts)

\* The entry at `path` below `node` (path excludes node's own name).
RECURSIVE NodeAt(_, _)
NodeAt(node, path) ==
    IF path = <<>> THEN node
    ELSE LET i == CHOOSE i \in 1..Len(node.kids) : node.kids[i].name = Head(path)
         IN NodeAt(node.kids[i], Tail(path))

----------------------------------------------------------------------------
(* _list_recursive *)

\* Faulty variant: the filter on the leading dot is forgotten.
ChildrenUnfiltered(parent) == parent.kids

\* [child for child in parent.iterdir() if not child.name.startswith(".")]
Children(parent) == SelectSeq(parent.kids, LAMBDA c : ~IsHidden(c.name))

\* if maxdepth > 0: maxdepth = maxdepth - 1   (the loop's own variable)
Descend(md) == IF md > 0 THEN md - 1 ELSE md

\* accumulator.extend(_list_recursive(child, accumulator=accumulator, ...)):
\* r is what the call returned.  At maxdepth 0 the callee returns a fresh
\* [child]; given an empty accumulator, `accumulator or []` makes the callee
\* fill a fresh list; otherwise the callee appended to the caller's own list
\* and returned it, so the caller extends the list with itself.
Extend(acc, r, md) ==
    IF md = 0 THEN acc \o r
    ELSE IF acc = <<>> THEN r
    ELSE r \o r

RECURSIVE list_recursive(_, _, _, _), WalkChildren(_, _, _, _)
list_recursive(parent, path, accumulator, md) ==
    IF md = 0 THEN <<path>>
    ELSE WalkChildren(Children(parent), path, accumulator, md)

WalkChildren(children, path, acc, md) ==
    IF children = <<>> THEN acc
    ELSE LET child == Head(children)
             cpath == Append(path, child.name)
         IN IF child.dir
            THEN LET md2 == Descend(md)
                     r == list_recursive(child, cpath, acc, md2)
                 IN WalkChildren(Tail(children), path, Extend(acc, r, md2), md2)
            ELSE WalkChildren(Tail(children), path, Append(acc, cpath), md)

----------------------------------------------------------------------------
(* _patch_project_name, _init_project *)

\* Faulty variant: only the first occurrence is replaced (str.replace(old, new, 1)).
RECURSIVE ReplaceFirst(_, _, _)
ReplaceFirst(s, old, new) ==
    IF Len(s) < Len(old) THEN s
    ELSE IF SubSeq(s, 1, Len(old)) = old
         THEN new \o SubSeq(s, Len(old) + 1, Len(s))
         ELSE <<Head(s)>> \o ReplaceFirst(Tail(s), old, new)

patch_first_occurrence(text, name) == ReplaceFirst(text, PROJECT_NAME_SENTINEL, name)

\* Faulty variant: the file is not rewound and truncated, so the replaced text is
\* written after the text that was read.
patch_without_truncate(text, name) ==
    text \o Replace(text, PROJECT_NAME_SENTINEL, name)

\* whole_text.replace(_PROJECT_NAME_SENTINEL, name), written back in place
patch_project_name(text, name) == Replace(text, PROJECT_NAME_SENTINEL, name)

\* project_name.replace("-", "_")
Normalize(name) == Replace(name, <<"-">>, <<"_">>)

\* The tree with the file at `path` (below node) patched.
RECURSIVE PatchAt(_, _, _)
PatchAt(node, path, name) ==
    IF path = <<>> THEN [node EXCEPT !.text = patch_project_name(@, name)]
    ELSE [node EXCEPT !.kids =
            [i \in 1..Len(@) |->
                IF @[i].name = Head(path) THEN PatchAt(@[i], Tail(path), name) ELSE @[i]]]

\* for file in all_files: _patch_project_name(file, ...)
RECURSIVE PatchAll(_, _, _)
PatchAll(tree, files, name) ==
    IF files = <<>> THEN tree
    ELSE PatchAll(PatchAt(tree, Tail(Head(files)), name), Tail(files), name)

\* all_files = _list_recursive(destination)
AllFiles(tree) == list_recursive(tree, <<tree.name>>, <<>>, -1)

\* _init_project(destination, project_name), run to its end
init_project(tree, name) == PatchAll(tree, AllFiles(tree), Normalize(name))

----------------------------------------------------------------------------
(* The walk on its own: _list_recursive(root, maxdepth=maxdepth) *)

F1 == <<"f">>
HF == <<".", "f">>
D1 == <<"d">>
D2 == <<"e">>
HD == <<".", "h">>

WalkFileNames == {F1, HF}
WalkDirNames == {D1, D2, HD}
WalkDepths == {-1, 0, 1, 2, 3}

\* The trees a walk is given: at most n entries below a root of either name.
WalkRoots(n) ==
    {Dir(nm, ks) : nm \in {D1, HD},
                   ks \in Forests(n, WalkFileNames, WalkDirNames, {<<>>})}

Idle ==
    /\ cwd = <<>>
    /\ out = <<>>
    /\ destination = <<>>
    /\ project_name = None
    /\ dest = Absent
    /\ stages = <<>>
    /\ exitcode = <<>>
    /\ visited = <<>>
    /\ first = Absent

InitWalk ==
    /\ pc = "walk"
    /\ root \in WalkRoots(MaxEntries)
    /\ maxdepth \in WalkDepths
    /\ result = <<>>
    /\ Idle

Walk ==
    /\ pc = "walk"
    /\ result' = list_recursive(root, <<root.name>>, <<>>, maxdepth)
    /\ pc' = "walked"
    /\ UNCHANGED <<cwd, root, maxdepth, out, destination, project_name,
                   dest, stages, exitcode, visited, first>>

NextWalk == Walk

SpecWalk == InitWalk /\ [][NextWalk]_vars

\* The regular files among the paths of a walk's result.
FileSet(res) == {p \in SeqToSet(res) : ~NodeAt(root, Tail(p)).dir}

\* The levels of the directories of a tree, the root being at level 1.
RECURSIVE DirLevels(_, _)
DirLevels(node, level) ==
    IF ~node.dir THEN {}
    ELSE {level} \cup UNION {DirLevels(node.kids[i], level + 1) : i \in 1..Len(node.kids)}

NoDuplicates(s) == \A i, j \in 1..Len(s) : i # j => s[i] # s[j]

\* C6: with maxdepth = d >= 1 and no directory of the tree deeper than d
\* (the root counted as level 1, so that a single chain of directories is
\* walked to its end), the files of the bounded walk are the files of the
\* unbounded walk, whatever the number of sibling subdirectories.
C6_BoundedAgreesWithUnbounded ==
    (pc = "walked" /\ maxdepth >= 1 /\ \A l \in DirLevels(root, 1) : l <= maxdepth)
        => FileSet(result) = FileSet(list_recursive(root, <<root.name>>, <<>>, -1))

\* C7 as stated: no result path has a dot-named component, the root's own
\* name included.
C7_NoHiddenAnywhere ==
    pc = "walked" =>
        \A i \in 1..Len(result) : \A k \in 1..Len(result[i]) : ~IsHidden(result[i][k])

\* C7 amended: below the root, no result entry is dot-named or lies beneath a
\* dot-named directory; the root itself is returned whatever its name.
C7_NoHiddenBelowRoot ==
    pc = "walked" =>
        \A i \in 1..Len(result) : \A k \in 2..Len(result[i]) : ~IsHidden(result[i][k])

C7_Witness ==
    /\ pc = "walked"
    /\ maxdepth = -1
    /\ Len(result) >= 2
    /\ \E i \in 1..Len(root.kids) :
          /\ IsHidden(root.kids[i].name)
          /\ root.kids[i].dir
          /\ root.kids[i].kids # <<>>
          /\ ~IsHidden(root.kids[i].kids[1].name)

\* C10: the walk's result holds each entry at most once.
C10_NoDuplicateEntries ==
    pc = "walked" => NoDuplicates(result)

----------------------------------------------------------------------------
(* File contents and names *)

Pre == <<"{", "%">>
Suf == <<"_", "N", "A", "M", "E", "%", "}">>
A_B == <<"a", "-", "b">>
PROJECT == <<"P", "R", "O", "J", "E", "C", "T">>
M_P == <<"m", "-", "p">>
GIT == <<".", "g", "i", "t">>

\* What contents are made of: the sentinel, and the two ends of it.
Pieces == {PROJECT_NAME_SENTINEL, Pre, Suf}

RECURSIVE PieceTexts(_)
PieceTexts(n) ==
    IF n = 0 THEN {<<>>}
    ELSE PieceTexts(n - 1) \cup {t \o q : t \in PieceTexts(n - 1), q \in Pieces}

\* The templates: at most n entries, each file's content at most m pieces.
TemplateTrees(n, m) ==
    {Dir(D1, ks) : ks \in Forests(n, {F1}, {D1}, PieceTexts(m))}

\* The paths of the regular files a walk should reach: not dot-named and
\* not beneath a dot-named directory.
RECURSIVE VisibleFiles(_, _)
VisibleFiles(node, path) ==
    IF ~node.dir THEN {path}
    ELSE UNION {VisibleFiles(node.kids[i], Append(path, node.kids[i].name)) :
                   i \in {j \in 1..Len(node.kids) : ~IsHidden(node.kids[j].name)}}

----------------------------------------------------------------------------
(* The initializer on its own: _init_project(dest, project_name), run once *)
(* and then once more on the tree the first run left.                      *)

InitNames == {A_B, PROJECT, PROJECT_NAME_SENTINEL}

InitInit ==
    /\ pc = "init"
    /\ root \in TemplateTrees(MaxTemplateEntries, MaxPieces)
    /\ dest = root
    /\ project_name \in InitNames
    /\ visited = <<>>
    /\ first = Absent
    /\ cwd = <<>>
    /\ maxdepth = -1
    /\ result = <<>>
    /\ out = <<>>
    /\ destination = <<>>
    /\ stages = <<>>
    /\ exitcode = <<>>

\* A run that reaches its end.
InitRun ==
    /\ pc \in {"init", "once"}
    /\ dest' = init_project(dest, project_name)
    /\ visited' = AllFiles(dest)
    /\ first' = IF pc = "init" THEN dest' ELSE first
    /\ pc' = IF pc = "init" THEN "once" ELSE "twice"
    /\ UNCHANGED <<cwd, root, maxdepth, result, out, destination, project_name,
                   stages, exitcode>>

\* A run that an I/O error ends: the walk raised (k = 0), or opening, reading
\* or writing file k + 1 of all_files did, the k files before it patched.
InitRunFails ==
    /\ pc \in {"init", "once"}
    /\ \E k \in 0..Len(AllFiles(dest)) :
          /\ k = 0 \/ k < Len(AllFiles(dest))
          /\ dest' = PatchAll(dest, SubSeq(AllFiles(dest), 1, k), Normalize(project_name))
          /\ visited' = SubSeq(AllFiles(dest), 1, k)
    /\ pc' = "failed"
    /\ UNCHANGED <<cwd, root, maxdepth, result, out, destination, project_name,
                   stages, exitcode, first>>

NextInit == InitRun \/ InitRunFails

SpecInit == InitInit /\ [][NextInit]_vars

\* A name with every hyphen replaced by an underscore.
Underscored(name) == Replace(name, <<"-">>, <<"_">>)

\* A name the substitution cannot rebuild the sentinel around: it holds no
\* brace and is not a part of the sentinel (the empty name is a part of it).
Harmless(name) ==
    /\ "{" \notin Chars(name)
    /\ "}" \notin Chars(name)
    /\ ~IsSubstring(name, PROJECT_NAME_SENTINEL)

\* The text of a file outside its sentinel occurrences.
Outside(text) == Replace(text, PROJECT_NAME_SENTINEL, <<>>)

C5_Idempotent ==
    pc = "twice" => dest = first

\* C5 amended: a second run changes no file when the normalized name holds
\* no brace and is not a part of the sentinel.
C5_IdempotentAmended ==
    (pc = "twice" /\ Harmless(Underscored(project_name))) => dest = first

C5_Witness ==
    /\ pc = "twice"
    /\ project_name = A_B
    /\ dest = first
    /\ dest # root
    /\ Len(visited) >= 2

----------------------------------------------------------------------------
(* clone *)

\* sys.exit(1) after UnknownProjectTemplate; return 1; return 2; return 0
ExitUnknownTemplate == 1
ExitFetchFailed == 1
\* Faulty variant: a failed initialization returns the fetch's code.
ExitInitFailedAsFetch == ExitFetchFailed
ExitInitFailed == 2
ExitSuccess == 0
\* list: return 1 for an unsupported language
ExitUnsupported == 1

\* template_folder.exists() and template_folder.is_dir()
validate_project_template(folder) == folder # Absent /\ folder.dir

\* args.project_name or dst_project_folder.name
NameArgument(name, dst) == IF name = None \/ name = <<>> THEN dst ELSE name

\* The metadata directory `git clone` leaves in the destination.
GitDir == Dir(GIT, <<File(F1, PROJECT_NAME_SENTINEL)>>)

\* git clone src dst: the template's tree under the destination's name.
clone_project_template(src, dst) == Dir(dst, <<GitDir>> \o src.kids)

CloneNames == {None, <<>>, A_B, PROJECT}
CloneDestinations == {M_P}

InitClone ==
    /\ pc = "VALIDATING_TEMPLATE"
    /\ root \in TemplateTrees(MaxTemplateEntries, MaxPieces) \cup {Absent, File(D1, <<>>)}
    /\ destination \in CloneDestinations
    /\ project_name \in CloneNames
    /\ dest = Absent
    /\ stages = <<>>
    /\ exitcode = <<>>
    /\ visited = <<>>
    /\ first = Absent
    /\ cwd = <<>>
    /\ maxdepth = -1
    /\ result = <<>>
    /\ out = <<>>

ValidateOk ==
    /\ pc = "VALIDATING_TEMPLATE"
    /\ validate_project_template(root)
    /\ stages' = Append(stages, "VALIDATING_TEMPLATE")
    /\ pc' = "FETCHING"
    /\ UNCHANGED <<cwd, root, maxdepth, result, out, destination, project_name,
                   dest, exitcode, visited, first>>

\* Faulty variant: the handler logs and falls through to the fetch.
AfterUnknownTemplateFallsThrough == "FETCHING"

\* except UnknownProjectTemplate: sys.exit(1)
AfterUnknownTemplate == "ERROR_UNKNOWN_TEMPLATE"

ValidateUnknown ==
    /\ pc = "VALIDATING_TEMPLATE"
    /\ ~validate_project_template(root)
    /\ stages' = Append(stages, "VALIDATING_TEMPLATE")
    /\ pc' = AfterUnknownTemplate
    /\ exitcode' = IF AfterUnknownTemplate = "ERROR_UNKNOWN_TEMPLATE"
                   THEN <<ExitUnknownTemplate>> ELSE exitcode
    /\ UNCHANGED <<cwd, root, maxdepth, result, out, destination, project_name,
                   dest, visited, first>>

\* git can clone only a source that exists
FetchOk ==
    /\ pc = "FETCHING"
    /\ root # Absent
    /\ stages' = Append(stages, "FETCHING")
    /\ dest' = clone_project_template(root, destination)
    /\ pc' = "INITIALIZING"
    /\ UNCHANGED <<cwd, root, maxdepth, result, out, destination, project_name,
                   exitcode, visited, first>>

\* git exits non-zero: the destination is not created
FetchFails ==
    /\ pc = "FETCHING"
    /\ stages' = Append(stages, "FETCHING")
    /\ pc' = "ERROR_FETCH_FAILED"
    /\ exitcode' = Append(exitcode, ExitFetchFailed)
    /\ UNCHANGED <<cwd, root, maxdepth, result, out, destination, project_name,
                   dest, visited, first>>

InitOk ==
    /\ pc = "INITIALIZING"
    /\ stages' = Append(stages, "INITIALIZING")
    /\ dest' = init_project(dest, NameArgument(project_name, dest.name))
    /\ visited' = AllFiles(dest)
    /\ pc' = "DONE"
    /\ exitcode' = Append(exitcode, ExitSuccess)
    /\ UNCHANGED <<cwd, root, maxdepth, result, out, destination, project_name, first>>

InitFails ==
    /\ pc = "INITIALIZING"
    /\ stages' = Append(stages, "INITIALIZING")
    /\ \E k \in 0..Len(AllFiles(dest)) :
          /\ k = 0 \/ k < Len(AllFiles(dest))
          /\ dest' = PatchAll(dest, SubSeq(AllFiles(dest), 1, k),
                              Normalize(NameArgument(project_name, dest.name)))
          /\ visited' = SubSeq(AllFiles(dest), 1, k)
    /\ pc' = "ERROR_INIT_FAILED"
    /\ exitcode' = Append(exitcode, ExitInitFailed)
    /\ UNCHANGED <<cwd, root, maxdepth, result, out, destination, project_name, first>>

Next ==
    \/ ValidateOk
    \/ ValidateUnknown
    \/ FetchOk
    \/ FetchFails
    \/ InitOk
    \/ InitFails

Spec == InitClone /\ [][Next]_vars

Terminal == {"DONE", "ERROR_UNKNOWN_TEMPLATE", "ERROR_FETCH_FAILED", "ERROR_INIT_FAILED"}

\* C1: clone ends with exactly one exit code: 0 exactly when validation,
\* fetch and initialization all succeeded; 1 when the template is missing or
\* not a directory, or the fetch failed; 2 when the fetch succeeded and the
\* initialization failed; and no other code.
C1_ExitCodes ==
    /\ Len(exitcode) <= 1
    /\ (pc \in Terminal) <=> (Len(exitcode) = 1)
    /\ Len(exitcode) = 1 =>
          /\ exitcode[1] \in {0, 1, 2}
          /\ (exitcode[1] = 0) <=>
                (/\ validate_project_template(root)
                 /\ dest # Absent
                 /\ pc = "DONE")
          /\ (exitcode[1] = 1) <=>
                (\/ ~validate_project_template(root)
                 \/ pc = "ERROR_FETCH_FAILED")
          /\ (exitcode[1] = 2) <=> (dest # Absent /\ pc = "ERROR_INIT_FAILED")
          /\ pc = "ERROR_FETCH_FAILED" => dest = Absent
          /\ pc = "DONE" =>
                dest = init_project(clone_project_template(root, destination),
                                    NameArgument(project_name, destination))

C1_Witness ==
    /\ pc = "ERROR_INIT_FAILED"
    /\ exitcode = <<2>>
    /\ Len(visited) >= 1

\* C2: the stages run in the order VALIDATING_TEMPLATE, FETCHING,
\* INITIALIZING, each at most once; the fetch starts only after validation
\* succeeded and the initialization only after the fetch succeeded; after a
\* failed stage no later stage runs; a template that does not exist is never
\* fetched and no destination is created.
C2_StageOrder ==
    /\ \E n \in 0..3 :
          stages = SubSeq(<<"VALIDATING_TEMPLATE", "FETCHING", "INITIALIZING">>, 1, n)
    /\ "FETCHING" \in SeqToSet(stages) => validate_project_template(root)
    /\ "INITIALIZING" \in SeqToSet(stages) => dest # Absent
    /\ pc = "ERROR_UNKNOWN_TEMPLATE" => stages = <<"VALIDATING_TEMPLATE">>
    /\ pc = "ERROR_FETCH_FAILED" => stages = <<"VALIDATING_TEMPLATE", "FETCHING">>
    /\ ~validate_project_template(root) =>
          /\ dest = Absent
          /\ pc \in {"VALIDATING_TEMPLATE", "ERROR_UNKNOWN_TEMPLATE"}

C2_Witness ==
    /\ root = Absent
    /\ pc = "ERROR_UNKNOWN_TEMPLATE"
    /\ exitcode = <<1>>
    /\ dest = Absent

\* C3: after a clone that exits 0, every regular file of the destination
\* that is not dot-named nor beneath a dot-named directory holds the
\* template file's content with each sentinel occurrence replaced, in one
\* pass, by N with its hyphens replaced by underscores: N is the
\* project_name argument if supplied (an empty argument counting as not
\* supplied), else the destination's base name.
C3_CloneContent ==
    (pc = "DONE" /\ exitcode = <<0>>) =>
        \A f \in VisibleFiles(dest, <<>>) :
            NodeAt(dest, f).text =
                Replace(NodeAt(root, f).text, PROJECT_NAME_SENTINEL,
                        Underscored(IF project_name \notin {None, <<>>}
                                    THEN project_name ELSE destination))

----------------------------------------------------------------------------
(* list *)

UPPER == <<"A", "B", "C", "D", "E", "F", "G", "H", "I", "J", "K", "L", "M",
           "N", "O", "P", "Q", "R", "S", "T", "U", "V", "W", "X", "Y", "Z">>
LOWER == <<"a", "b", "c", "d", "e", "f", "g", "h", "i", "j", "k", "l", "m",
           "n", "o", "p", "q", "r", "s", "t", "u", "v", "w", "x", "y", "z">>

\* str.lower()
Lower(s) ==
    [i \in 1..Len(s) |->
        IF \E k \in 1..Len(UPPER) : UPPER[k] = s[i]
        THEN LOWER[CHOOSE k \in 1..Len(UPPER) : UPPER[k] = s[i]]
        ELSE s[i]]

README == <<"r", "e", "a", "d", "m", "e">>

\* str(path) of an absolute path: "/" before each of its names
RECURSIVE PathStr(_)
PathStr(path) ==
    IF path = <<>> THEN <<>> ELSE <<"/">> \o Head(path) \o PathStr(Tail(path))

\* s[:6]
Prefix6(s) == SubSeq(s, 1, IF Len(s) < 6 THEN Len(s) ELSE 6)

\* not str(file).lower()[:6] == "readme"
NoReadme(file) == ~(Prefix6(Lower(PathStr(file))) = README)

\* the directories among languages_folder.iterdir()
TemplateFolders(folder) ==
    {folder.kids[i] : i \in {j \in 1..Len(folder.kids) : folder.kids[j].dir}}

\* Faulty variant: the walk is not given maxdepth=1.
FolderChildrenUnbounded(folder, path) ==
    SeqToSet(list_recursive(folder, path, <<>>, -1))

\* set(_list_recursive(template_folder, maxdepth=1)), as paths
FolderChildren(folder, path) == SeqToSet(list_recursive(folder, path, <<>>, 1))

\* {child for child in template_folder_children if child.is_file()}
FolderFiles(folder, path) ==
    {c \in FolderChildren(folder, path) :
        ~NodeAt(folder, SubSeq(c, Len(path) + 1, Len(c))).dir}

\* len(noreadme_files) != 0: the folder is taken for a template
IsTemplate(folder, path) ==
    {f \in FolderFiles(folder, path) : NoReadme(f)} # {}

\* _list_subtemplate_folders(parent): every child of the walk, if no entry
\* of parent.iterdir() is a file
list_subtemplate_folders(parent, path) ==
    IF \A i \in 1..Len(parent.kids) : parent.kids[i].dir
    THEN FolderChildren(parent, path)
    ELSE {}

\* The lines `list` logs for one folder of the first loop.
GroupLines(folder, path) ==
    IF IsTemplate(folder, path) THEN {}
    ELSE {<<folder.name, Last(c)>> : c \in list_subtemplate_folders(folder, path)}

\* A set's elements in some order.
RECURSIVE SetToSeq(_)
SetToSeq(S) ==
    IF S = {} THEN <<>>
    ELSE LET x == CHOOSE x \in S : TRUE IN <<x>> \o SetToSeq(S \ {x})

RECURSIVE Concat(_)
Concat(ss) == IF ss = <<>> THEN <<>> ELSE Head(ss) \o Concat(Tail(ss))

\* What `list` logs: the group lines folder by folder, then the templates.
ListLines(folder, path) ==
    LET tfs == SetToSeq(TemplateFolders(folder))
        sub(t) == Append(path, t.name)
    IN Concat([i \in 1..Len(tfs) |-> SetToSeq(GroupLines(tfs[i], sub(tfs[i])))])
       \o SetToSeq({<<t.name>> : t \in {u \in TemplateFolders(folder) :
                                            IsTemplate(u, sub(u))}})

PY3 == <<"p", "y", "3">>
MAIN == <<"m">>
README_MD == <<"R", "E", "A", "D", "M", "E", ".", "m", "d">>
HX == <<".", "x">>
WEB == <<"w">>
CLI == <<"c">>

ListFileNames == {MAIN, README_MD, HX}
ListDirNames == {WEB, CLI, GIT}
Cwds == {<<>>, <<README>>}

\* The Template Roots: at most n entries below the language's folder.
ListRoots(n) ==
    {Dir(PY3, ks) : ks \in Forests(n, ListFileNames, ListDirNames, {<<>>})}

InitList ==
    /\ pc = "list"
    /\ cwd \in Cwds
    /\ root \in ListRoots(MaxListEntries) \cup {Absent, File(PY3, <<>>)}
    /\ out = <<>>
    /\ exitcode = <<>>
    /\ maxdepth = 1
    /\ result = <<>>
    /\ destination = <<>>
    /\ project_name = None
    /\ dest = Absent
    /\ stages = <<>>
    /\ visited = <<>>
    /\ first = Absent

ListUnsupported ==
    /\ pc = "list"
    /\ ~(root # Absent /\ root.dir)
    /\ pc' = "unsupported"
    /\ exitcode' = <<ExitUnsupported>>
    /\ UNCHANGED <<cwd, root, maxdepth, result, out, destination, project_name,
                   dest, stages, visited, first>>

ListOk ==
    /\ pc = "list"
    /\ root # Absent /\ root.dir
    /\ out' = ListLines(root, Append(cwd, root.name))
    /\ pc' = "listed"
    /\ exitcode' = <<ExitSuccess>>
    /\ UNCHANGED <<cwd, root, maxdepth, result, destination, project_name,
                   dest, stages, visited, first>>

NextList == ListOk \/ ListUnsupported

SpecList == InitList /\ [][NextList]_vars

StartsWithReadme(name) == Prefix6(Lower(name)) = README

Kids(node) == {node.kids[i] : i \in 1..Len(node.kids)}
Shown(node) == {k \in Kids(node) : ~IsHidden(k.name)}

\* C8: a folder T of the Template Root with a non-hidden file not named
\* readme* is listed as the bare T and by no T/S line; any other folder is
\* not listed bare and is listed as T/S for each non-hidden subdirectory S.
C8_Classification ==
    pc = "listed" =>
        \A t \in TemplateFolders(root) :
            IF \E k \in Shown(t) : ~k.dir /\ ~StartsWithReadme(k.name)
            THEN /\ <<t.name>> \in SeqToSet(out)
                 /\ \A k \in Kids(t) : <<t.name, k.name>> \notin SeqToSet(out)
            ELSE /\ <<t.name>> \notin SeqToSet(out)
                 /\ \A k \in Shown(t) : k.dir => <<t.name, k.name>> \in SeqToSet(out)

\* C9 as stated: when every folder of the Template Root either holds a
\* file not named readme* or holds no file at all, the lines are the bare
\* names of the former and T/S for every subdirectory S of each of the
\* latter, each line once.
C9_ListOutput ==
    (/\ pc = "listed"
     /\ \A t \in TemplateFolders(root) :
           \/ \E k \in Kids(t) : ~k.dir /\ ~StartsWithReadme(k.name)
           \/ \A k \in Kids(t) : k.dir)
    => /\ NoDuplicates(out)
       /\ SeqToSet(out) =
            {<<t.name>> : t \in {u \in TemplateFolders(root) :
                                    \E k \in Kids(u) : ~k.dir /\ ~StartsWithReadme(k.name)}}
            \cup UNION {{<<t.name, k.name>> : k \in {j \in Kids(t) : j.dir}} :
                           t \in {u \in TemplateFolders(root) : \A k \in Kids(u) : k.dir}}

\* C9 amended: when every folder of the Template Root either holds a
\* non-hidden file not named readme* or holds no file at all, the lines are
\* the bare names of the former and T/S for every non-hidden subdirectory S
\* of each of the latter, each line once.
C9_ListOutputAmended ==
    (/\ pc = "listed"
     /\ \A t \in TemplateFolders(root) :
           \/ \E k \in Shown(t) : ~k.dir /\ ~StartsWithReadme(k.name)
           \/ \A k \in Kids(t) : k.dir)
    => /\ NoDuplicates(out)
       /\ SeqToSet(out) =
            {<<t.name>> : t \in {u \in TemplateFolders(root) :
                                    \E k \in Shown(u) : ~k.dir /\ ~StartsWithReadme(k.name)}}
            \cup UNION {{<<t.name, k.name>> : k \in {j \in Shown(t) : j.dir}} :
                           t \in {u \in TemplateFolders(root) : \A k \in Kids(u) : k.dir}}

C9_Witness ==
    /\ pc = "listed"
    /\ Len(out) = 2
    /\ \E t \in TemplateFolders(root) :
          /\ <<t.name>> \in SeqToSet(out)
          /\ \E k \in Shown(t) : ~k.dir /\ ~StartsWithReadme(k.name)
    /\ \E t \in TemplateFolders(root) :
          /\ \A k \in Kids(t) : k.dir
          /\ \E k \in Shown(t) : <<t.name, k.name>> \in SeqToSet(out)

====
